---- MODULE Spec2Model ----
(***************************************************************************)
(* Model of count_pulses_with_pause.cpp: the CountPulsesWithPause class    *)
(* (one PIO state machine per instance, all on pio0), the autonomous PIO   *)
(* state machines that push completed pulse counts into their RX FIFOs,    *)
(* and the polling loop of main().                                         *)
(*                                                                         *)
(* Spec     : main() as written (two instances, up then down).             *)
(* SpecAPI  : a single-threaded client that constructs the two instances   *)
(*            and calls read_pulses()/clear_queues() on them in any order. *)
(* SpecCtor : a single-threaded client that constructs one instance after  *)
(*            another, on any number of state machines.                    *)
(* SpecLive : main() with a producer that never stops, and the host fair.  *)
(* SpecConc : two control flows that construct the two instances at the    *)
(*            same time.                                                   *)
(***************************************************************************)
EXTENDS Integers, Naturals, Sequences, FiniteSets, TLC

\* ---------------------------------------------------------------- bounds
\* number of PIO state machines of pio0 (ids 0..MaxSM-1); SpecCtor binds an
\* instance to each of them
MaxSM == 2
\* entries an RX FIFO holds before the state machine can push no more
MaxFifo == 3
\* total number of entries the state machines push in one behaviour
MaxProduced == 3
\* highest instruction-memory offset pio_add_program may return
MaxOffset == 1

\* the counters and the FIFO words are uint32_t; the model keeps the wrap-around
\* arithmetic and scales the width down: UINT32_MOD stands for 2^32
UINT32_MOD == 8

\* ------------------------------------------------------ program constants
STEP_PIN_UP == 6
STEP_PIN_DN == 7
\* sm_select of pulse_counter_up / pulse_counter_down
SM_UP == 0
SM_DN == 1

SM == 0 .. (MaxSM - 1)
\* the state machines main() binds an instance to
Chan == {SM_UP, SM_DN}
Offsets == 0 .. MaxOffset
\* raw words a state machine may push (any uint32_t; a small spread of them)
RawValues == {1, UINT32_MOD - 1}

VARIABLES
    \* ---- pio0 hardware
    rx_fifo,            \* [SM -> Seq(uint32)]  RX FIFO of each state machine
    sm_enabled,         \* [SM -> BOOLEAN]      pio_sm_set_enabled
    sm_offset,          \* [SM -> Offsets]      program offset given to pio_sm_init
    sm_pin,             \* [SM -> pin]          jmp pin / in base pin
    instr_mem,          \* set of offsets at which pio_add_program placed a copy
    \* ---- CountPulsesWithPause, static members
    is_program_loaded,
    offset,
    \* ---- CountPulsesWithPause, per instance (indexed by its sm)
    current_pulse_count,
    cumulative_pulse_count,
    report_count,
    \* ---- control
    pc,                 \* position of main() ("api" in SpecAPI)
    rp_at,              \* position inside read_pulses: "idle", "pop", "check"
    rp_sm,              \* the instance whose read_pulses is running
    ctor_at,            \* [SM -> position inside a constructor that runs concurrently
                        \*        with another one: "none", "test", "load", "set",
                        \*        "config", "done"] (SpecConc)
    \* ---- history (observations only, never read by the program)
    entry,              \* state of the instance when the running/last read_pulses was entered
    popped,             \* values popped by the running/last read_pulses
    avail,              \* entries in the FIFO when the running/last read_pulses tested
                        \* the level at entry, then those pushed until it returned
    last,               \* the last completed host operation
    sum_current,        \* [SM -> sum mod 2^32 of current over successful reads]
    pops,               \* [SM -> number mod 2^32 of pio_sm_get calls of the instance]
    clean,              \* [SM -> "no", or how clear_queues found the FIFO ("empty",
                        \*        "flushed", or "again" when it was cleared before)
                        \*        when nothing was pushed since]
    cleared,            \* instances on which clear_queues was called since construction
    produced,           \* number of pushes so far
    polled,             \* instances whose read_pulses was called in this pass, in order
    ok,                 \* instances whose read_pulses returned true in this pass
    reports,            \* printf records of this pass, in order
    slept,              \* the sleep decision taken at the end of the previous pass
    prev_ok,            \* whether a read_pulses returned true in the previous pass
    pass_done           \* whether a pass has completed

hw == <<rx_fifo, sm_enabled, sm_offset, sm_pin, instr_mem>>
statics == <<is_program_loaded, offset>>
counts == <<current_pulse_count, cumulative_pulse_count, report_count>>
call == <<rp_at, rp_sm, entry, popped, avail>>
pass == <<polled, ok, reports, slept, prev_ok, pass_done>>
vars == <<hw, statics, counts, pc, call, ctor_at, last, sum_current, pops, clean, cleared,
          produced, pass>>

RECURSIVE SeqSum(_)
SeqSum(s) == IF s = <<>> THEN 0 ELSE Head(s) + SeqSum(Tail(s))

\* the histories popped and avail keep their first MaxProduced values: all of
\* them as long as the state machines push no more than MaxProduced entries
Remember(q, v) == IF Len(q) < MaxProduced THEN Append(q, v) ELSE q

NoEntry == [cur |-> 0, cum |-> 0, rep |-> 0, level |-> 0, clean |-> "no"]
NoOp == [op |-> "none", sm |-> 0, ret |-> FALSE]

\* ------------------------------------------------------------ hardware
\* pio_sm_get_rx_fifo_level(pio, sm)
pio_sm_get_rx_fifo_level(s) == Len(rx_fifo[s])

\* the word pio_sm_get(pio, sm) returns: the oldest entry; reading an empty
\* FIFO returns an unspecified word
pio_sm_get_values(s) == IF rx_fifo[s] = <<>> THEN RawValues ELSE {Head(rx_fifo[s])}

\* the FIFOs after pio_sm_get(pio, sm)
pio_sm_get_fifos(s) ==
    IF rx_fifo[s] = <<>> THEN rx_fifo ELSE [rx_fifo EXCEPT ![s] = Tail(rx_fifo[s])]

pio_sm_clear_fifos_all(s) == [t \in SM |-> <<>>]
pio_sm_clear_fifos_none(s) == rx_fifo
pio_sm_clear_fifos_pop(s) ==
    IF rx_fifo[s] = <<>> THEN rx_fifo ELSE [rx_fifo EXCEPT ![s] = Tail(rx_fifo[s])]
\* the FIFOs after pio_sm_clear_fifos(pio, sm)
pio_sm_clear_fifos(s) == [rx_fifo EXCEPT ![s] = <<>>]

\* offsets at which pio_add_program can still place the program
FreeOffsets == Offsets \ instr_mem

\* An enabled state machine completes a pulse train and pushes its count.
Push(s, v) ==
    /\ sm_enabled[s]
    /\ Len(rx_fifo[s]) < MaxFifo
    /\ produced < MaxProduced
    /\ rx_fifo' = [rx_fifo EXCEPT ![s] = Append(rx_fifo[s], v)]
    /\ clean' = [clean EXCEPT ![s] = "no"]
    /\ cleared' = cleared
    /\ produced' = produced + 1
    /\ avail' = IF rp_at # "idle" /\ rp_sm = s THEN Remember(avail, v) ELSE avail
    /\ UNCHANGED <<sm_enabled, sm_offset, sm_pin, instr_mem, statics, counts, pc,
                   rp_at, rp_sm, entry, popped, ctor_at, last, sum_current, pops,
                   pass>>

\* ------------------------------------------------- CountPulsesWithPause
NeedsLoad_always == TRUE
\* if (!is_program_loaded)
NeedsLoad == ~is_program_loaded

\* CountPulsesWithPause(input, sm_select)
Construct(input, s) ==
    /\ current_pulse_count' = [current_pulse_count EXCEPT ![s] = 0]
    /\ cumulative_pulse_count' = [cumulative_pulse_count EXCEPT ![s] = 0]
    /\ report_count' = [report_count EXCEPT ![s] = 0]
    /\ IF NeedsLoad
         THEN \E o \in FreeOffsets :
                 /\ offset' = o
                 /\ instr_mem' = instr_mem \cup {o}
                 /\ is_program_loaded' = TRUE
         ELSE UNCHANGED <<offset, instr_mem, is_program_loaded>>
    /\ sm_pin' = [sm_pin EXCEPT ![s] = input]
    /\ sm_offset' = [sm_offset EXCEPT ![s] = offset']
    \* pio_sm_init clears the FIFOs of the state machine
    /\ rx_fifo' = [rx_fifo EXCEPT ![s] = <<>>]
    /\ sm_enabled' = [sm_enabled EXCEPT ![s] = TRUE]
    /\ sum_current' = [sum_current EXCEPT ![s] = 0]
    /\ pops' = [pops EXCEPT ![s] = 0]
    /\ clean' = [clean EXCEPT ![s] = "no"]
    /\ cleared' = cleared \ {s}
    /\ last' = [op |-> "construct", sm |-> s, ret |-> TRUE]
    /\ UNCHANGED <<call, ctor_at, produced>>

\* clear_queues()
clear_queues(s) ==
    /\ rx_fifo' = pio_sm_clear_fifos(s)
    /\ clean' = [clean EXCEPT ![s] = IF clean[s] # "no" THEN "again"
                                     ELSE IF rx_fifo[s] = <<>> THEN "empty"
                                     ELSE "flushed"]
    /\ cleared' = cleared \cup {s}
    /\ last' = [op |-> "clear", sm |-> s, ret |-> TRUE]
    /\ UNCHANGED <<sm_enabled, sm_offset, sm_pin, instr_mem, statics, counts, call,
                   ctor_at, sum_current, pops, produced>>

ResetCurrent_keep(c) == c
\* _current_pulse_count = 0;
ResetCurrent(c) == 0

AddPulse_assign(c, v) == v
\* _current_pulse_count += pio_sm_get(pio, sm);
AddPulse(c, v) == (c + v) % UINT32_MOD

Increment_skip(r) == r
\* _report_count++;
Increment(r) == (r + 1) % UINT32_MOD

Accumulate_assign(cum, cur) == cur
Accumulate_sub(cum, cur) == (cum + UINT32_MOD - cur) % UINT32_MOD
\* _cumulative_pulse_count += _current_pulse_count;
Accumulate(cum, cur) == (cum + cur) % UINT32_MOD

\* ------------------------------------------------------------- main()
MainAfterRead_elseif(p, ret) ==
    IF p = "poll_up" THEN (IF ret THEN "report_up" ELSE "poll_dn")
    ELSE IF p = "poll_dn" THEN (IF ret THEN "report_dn" ELSE "sleep")
    ELSE IF p = "report_up" THEN "sleep"
    ELSE IF p = "report_dn" THEN "sleep"
    ELSE p
MainAfterRead_always(p, ret) ==
    IF p = "poll_up" THEN "report_up"
    ELSE IF p = "poll_dn" THEN "report_dn"
    ELSE IF p = "report_up" THEN "poll_dn"
    ELSE IF p = "report_dn" THEN "sleep"
    ELSE p
\* main(), lines 149-164: where control goes from p; at the two ifs, ret is what
\* read_pulses returned
MainAfterRead(p, ret) ==
    IF p = "poll_up" THEN (IF ret THEN "report_up" ELSE "poll_dn")
    ELSE IF p = "poll_dn" THEN (IF ret THEN "report_dn" ELSE "sleep")
    ELSE IF p = "report_up" THEN "poll_dn"
    ELSE IF p = "report_dn" THEN "sleep"
    ELSE p

MainSm_swapped(p) == IF p \in {"poll_up", "report_up"} THEN SM_DN ELSE SM_UP
\* the instance main() polls / reports at p
MainSm(p) == IF p \in {"poll_up", "report_up"} THEN SM_UP ELSE SM_DN

SleepsAfterPass_ifidle(any) == ~any
\* main(), lines 164-165: whether the pass ends in sleep_ms(1000); any tells
\* whether a read_pulses of the pass returned true
SleepsAfterPass(any) == TRUE

EntryEmpty_never(level) == FALSE
\* if (pio_sm_get_rx_fifo_level(pio, sm) < 1)
EntryEmpty(level) == level < 1

LoopAgain_never(level) == FALSE
\* } while (pio_sm_get_rx_fifo_level(pio, sm) > 0);
LoopAgain(level) == level > 0

\* read_pulses() returns ret to its caller
Return(s, ret) ==
    /\ rp_at' = "idle"
    /\ last' = [op |-> "read", sm |-> s, ret |-> ret]
    /\ pc' = MainAfterRead(pc, ret)
    /\ ok' = IF ret /\ pc # "api" THEN ok \cup {s} ELSE ok

\* read_pulses(), lines 70-74: reset the current count, test the FIFO level
ReadEnter(s) ==
    /\ rp_at = "idle"
    /\ current_pulse_count' = [current_pulse_count EXCEPT ![s] = ResetCurrent(@)]
    /\ entry' = [cur |-> current_pulse_count[s], cum |-> cumulative_pulse_count[s],
                 rep |-> report_count[s], level |-> Len(rx_fifo[s]),
                 clean |-> clean[s]]
    /\ popped' = <<>>
    /\ avail' = rx_fifo[s]
    /\ rp_sm' = s
    /\ polled' = IF pc # "api" THEN Append(polled, s) ELSE polled
    /\ IF EntryEmpty(pio_sm_get_rx_fifo_level(s))
         THEN Return(s, FALSE)
         ELSE /\ rp_at' = "pop"
              /\ last' = [op |-> "reading", sm |-> s, ret |-> FALSE]
              /\ UNCHANGED <<pc, ok>>
    /\ UNCHANGED <<hw, statics, cumulative_pulse_count, report_count, ctor_at,
                   sum_current, pops, clean, cleared, produced, reports, slept, prev_ok,
                   pass_done>>

\* read_pulses(), lines 77-78: pop one entry, add it, count it
ReadPop ==
    /\ rp_at = "pop"
    /\ \E v \in pio_sm_get_values(rp_sm) :
          /\ current_pulse_count' =
                [current_pulse_count EXCEPT ![rp_sm] = AddPulse(@, v)]
          /\ popped' = Remember(popped, v)
    /\ rx_fifo' = pio_sm_get_fifos(rp_sm)
    /\ report_count' = [report_count EXCEPT ![rp_sm] = Increment(@)]
    /\ pops' = [pops EXCEPT ![rp_sm] = (@ + 1) % UINT32_MOD]
    /\ rp_at' = "check"
    /\ UNCHANGED <<sm_enabled, sm_offset, sm_pin, instr_mem, statics,
                   cumulative_pulse_count, pc, rp_sm, entry, avail, ctor_at, last,
                   sum_current, clean, cleared, produced, pass>>

\* read_pulses(), lines 79-81: loop while the FIFO has entries, else accumulate
\* and return true
ReadCheck ==
    /\ rp_at = "check"
    /\ IF LoopAgain(pio_sm_get_rx_fifo_level(rp_sm))
         THEN /\ rp_at' = "pop"
              /\ UNCHANGED <<cumulative_pulse_count, sum_current, last, pc, ok>>
         ELSE /\ cumulative_pulse_count' =
                    [cumulative_pulse_count EXCEPT
                        ![rp_sm] = Accumulate(@, current_pulse_count[rp_sm])]
              /\ sum_current' =
                    [sum_current EXCEPT
                        ![rp_sm] = (@ + current_pulse_count[rp_sm]) % UINT32_MOD]
              /\ Return(rp_sm, TRUE)
    /\ UNCHANGED <<hw, statics, current_pulse_count, report_count, rp_sm, entry,
                   popped, avail, ctor_at, pops, clean, cleared, produced, polled,
                   reports, slept, prev_ok,
                   pass_done>>

\* ------------------------------------------------------ main(), Spec
MainStartup_skipdn(p) ==
    IF p = "ctor_up" THEN "ctor_dn"
    ELSE IF p = "ctor_dn" THEN "clr_up"
    ELSE "poll_up"
\* main(), lines 131-147: the statement that follows p before the loop
MainStartup(p) ==
    IF p = "ctor_up" THEN "ctor_dn"
    ELSE IF p = "ctor_dn" THEN "clr_up"
    ELSE IF p = "clr_up" THEN "clr_dn"
    ELSE "poll_up"

\* line 131
ConstructUp ==
    /\ pc = "ctor_up"
    /\ Construct(STEP_PIN_UP, SM_UP)
    /\ pc' = MainStartup(pc)
    /\ UNCHANGED pass

\* line 132
ConstructDn ==
    /\ pc = "ctor_dn"
    /\ Construct(STEP_PIN_DN, SM_DN)
    /\ pc' = MainStartup(pc)
    /\ UNCHANGED pass

\* line 135
ClearUp ==
    /\ pc = "clr_up"
    /\ clear_queues(SM_UP)
    /\ pc' = MainStartup(pc)
    /\ UNCHANGED pass

\* line 136
ClearDn ==
    /\ pc = "clr_dn"
    /\ clear_queues(SM_DN)
    /\ pc' = MainStartup(pc)
    /\ UNCHANGED pass

\* lines 149 and 156: the call of read_pulses
Poll ==
    /\ pc \in {"poll_up", "poll_dn"}
    /\ ReadEnter(MainSm(pc))

\* lines 150-154 and 157-161: read the three getters and print them
Report ==
    /\ pc \in {"report_up", "report_dn"}
    /\ LET s == MainSm(pc) IN
         /\ reports' = Append(reports, [sm |-> s,
                                        report |-> report_count[s],
                                        current |-> current_pulse_count[s],
                                        total |-> cumulative_pulse_count[s]])
         /\ last' = [op |-> "report", sm |-> s, ret |-> TRUE]
    /\ pc' = MainAfterRead(pc, TRUE)
    /\ UNCHANGED <<hw, statics, counts, call, ctor_at, sum_current, pops, clean, cleared,
                   produced, polled, ok, slept, prev_ok, pass_done>>

\* lines 164-167: end of the pass, back to the top of while (true)
EndPass ==
    /\ pc = "sleep"
    /\ slept' = SleepsAfterPass(ok # {})
    /\ prev_ok' = (ok # {})
    /\ pass_done' = TRUE
    /\ polled' = <<>>
    /\ ok' = {}
    /\ reports' = <<>>
    /\ pc' = "poll_up"
    /\ last' = [op |-> "sleep", sm |-> 0, ret |-> TRUE]
    /\ UNCHANGED <<hw, statics, counts, call, ctor_at, sum_current, pops, clean, cleared,
                   produced>>

Produce == \E s \in SM, v \in RawValues : Push(s, v)

Init ==
    /\ rx_fifo = [s \in SM |-> <<>>]
    /\ sm_enabled = [s \in SM |-> FALSE]
    /\ sm_offset = [s \in SM |-> 0]
    /\ sm_pin = [s \in SM |-> 0]
    /\ instr_mem = {}
    /\ is_program_loaded = FALSE
    /\ offset = 0
    /\ current_pulse_count = [s \in SM |-> 0]
    /\ cumulative_pulse_count = [s \in SM |-> 0]
    /\ report_count = [s \in SM |-> 0]
    /\ pc = "ctor_up"
    /\ rp_at = "idle"
    /\ rp_sm = 0
    /\ ctor_at = [s \in SM |-> "none"]
    /\ entry = NoEntry
    /\ popped = <<>>
    /\ avail = <<>>
    /\ last = NoOp
    /\ sum_current = [s \in SM |-> 0]
    /\ pops = [s \in SM |-> 0]
    /\ clean = [s \in SM |-> "no"]
    /\ cleared = {}
    /\ produced = 0
    /\ polled = <<>>
    /\ ok = {}
    /\ reports = <<>>
    /\ slept = FALSE
    /\ prev_ok = FALSE
    /\ pass_done = FALSE

Next ==
    \/ ConstructUp
    \/ ConstructDn
    \/ ClearUp
    \/ ClearDn
    \/ Poll
    \/ ReadPop
    \/ ReadCheck
    \/ Report
    \/ EndPass
    \/ Produce

Spec == Init /\ [][Next]_vars

\* ------------------------------------------------------ main(), SpecLive
\* main() with a continuous stream of pulse trains on the up line and a silent
\* down line: whenever the up FIFO is empty its state machine may complete
\* another train, without limit on their number.
Sustain(s, v) ==
    /\ sm_enabled[s]
    /\ rx_fifo[s] = <<>>
    /\ rx_fifo' = [rx_fifo EXCEPT ![s] = Append(rx_fifo[s], v)]
    /\ clean' = [clean EXCEPT ![s] = "no"]
    /\ avail' = IF rp_at # "idle" /\ rp_sm = s THEN Remember(avail, v) ELSE avail
    /\ UNCHANGED <<sm_enabled, sm_offset, sm_pin, instr_mem, statics, counts, pc,
                   rp_at, rp_sm, entry, popped, ctor_at, last, sum_current, pops,
                   cleared, produced, pass>>

SustainUp == \E v \in RawValues : Sustain(SM_UP, v)

\* the steps of the host: the processor keeps executing main()
Host ==
    \/ ConstructUp
    \/ ConstructDn
    \/ ClearUp
    \/ ClearDn
    \/ Poll
    \/ ReadPop
    \/ ReadCheck
    \/ Report
    \/ EndPass

NextLive ==
    \/ Host
    \/ SustainUp

SpecLive == Init /\ [][NextLive]_vars /\ WF_vars(Host)

\* ------------------------------------------------------ client, SpecAPI
\* a new instance on a state machine no instance is bound to yet
ApiConstruct(s) ==
    /\ pc = "api"
    /\ rp_at = "idle"
    /\ ~sm_enabled[s]
    /\ Construct(STEP_PIN_UP + s, s)
    /\ UNCHANGED <<pc, pass>>

ApiClear(s) ==
    /\ pc = "api"
    /\ rp_at = "idle"
    /\ sm_enabled[s]
    /\ clear_queues(s)
    /\ UNCHANGED <<pc, pass>>

ApiRead(s) ==
    /\ pc = "api"
    /\ sm_enabled[s]
    /\ ReadEnter(s)

ApiConstructAny == \E s \in Chan : ApiConstruct(s)
ApiClearAny == \E s \in Chan : ApiClear(s)
ApiReadAny == \E s \in Chan : ApiRead(s)

InitAPI ==
    /\ rx_fifo = [s \in SM |-> <<>>]
    /\ sm_enabled = [s \in SM |-> FALSE]
    /\ sm_offset = [s \in SM |-> 0]
    /\ sm_pin = [s \in SM |-> 0]
    /\ instr_mem = {}
    /\ is_program_loaded = FALSE
    /\ offset = 0
    /\ current_pulse_count = [s \in SM |-> 0]
    /\ cumulative_pulse_count = [s \in SM |-> 0]
    /\ report_count = [s \in SM |-> 0]
    /\ pc = "api"
    /\ rp_at = "idle"
    /\ rp_sm = 0
    /\ ctor_at = [s \in SM |-> "none"]
    /\ entry = NoEntry
    /\ popped = <<>>
    /\ avail = <<>>
    /\ last = NoOp
    /\ sum_current = [s \in SM |-> 0]
    /\ pops = [s \in SM |-> 0]
    /\ clean = [s \in SM |-> "no"]
    /\ cleared = {}
    /\ produced = 0
    /\ polled = <<>>
    /\ ok = {}
    /\ reports = <<>>
    /\ slept = FALSE
    /\ prev_ok = FALSE
    /\ pass_done = FALSE

NextAPI ==
    \/ ApiConstructAny
    \/ ApiClearAny
    \/ ApiReadAny
    \/ ReadPop
    \/ ReadCheck
    \/ Produce

SpecAPI == InitAPI /\ [][NextAPI]_vars

\* ------------------------------------------------------ client, SpecConc
\* Two control flows (the two cores) each construct one instance; the
\* constructor is split at its reads and writes of the static members.

\* lines 26-37: the members of the new instance, the pin
CtorBegin(s) ==
    /\ pc = "api"
    /\ ctor_at[s] = "none"
    /\ ~sm_enabled[s]
    /\ current_pulse_count' = [current_pulse_count EXCEPT ![s] = 0]
    /\ cumulative_pulse_count' = [cumulative_pulse_count EXCEPT ![s] = 0]
    /\ report_count' = [report_count EXCEPT ![s] = 0]
    /\ sum_current' = [sum_current EXCEPT ![s] = 0]
    /\ pops' = [pops EXCEPT ![s] = 0]
    /\ ctor_at' = [ctor_at EXCEPT ![s] = "test"]
    /\ UNCHANGED <<hw, statics, pc, call, last, clean, cleared, produced, pass>>

\* line 39: if (!is_program_loaded)
CtorTest(s) ==
    /\ ctor_at[s] = "test"
    /\ ctor_at' = [ctor_at EXCEPT ![s] = IF NeedsLoad THEN "load" ELSE "config"]
    /\ UNCHANGED <<hw, statics, counts, pc, call, last, sum_current, pops, clean, cleared,
                   produced, pass>>

\* line 42: offset = pio_add_program(pio, &count_pulses_with_pause_program)
CtorLoad(s) ==
    /\ ctor_at[s] = "load"
    /\ \E o \in FreeOffsets :
          /\ offset' = o
          /\ instr_mem' = instr_mem \cup {o}
    /\ ctor_at' = [ctor_at EXCEPT ![s] = "set"]
    /\ UNCHANGED <<rx_fifo, sm_enabled, sm_offset, sm_pin, is_program_loaded, counts,
                   pc, call, last, sum_current, pops, clean, cleared, produced, pass>>

\* line 43: is_program_loaded = true
CtorSet(s) ==
    /\ ctor_at[s] = "set"
    /\ is_program_loaded' = TRUE
    /\ ctor_at' = [ctor_at EXCEPT ![s] = "config"]
    /\ UNCHANGED <<hw, offset, counts, pc, call, last, sum_current, pops, clean, cleared,
                   produced, pass>>

\* lines 47-63: configure the state machine with offset, initialise and enable it
CtorConfig(s) ==
    /\ ctor_at[s] = "config"
    /\ sm_pin' = [sm_pin EXCEPT ![s] = STEP_PIN_UP + s]
    /\ sm_offset' = [sm_offset EXCEPT ![s] = offset]
    /\ rx_fifo' = [rx_fifo EXCEPT ![s] = <<>>]
    /\ sm_enabled' = [sm_enabled EXCEPT ![s] = TRUE]
    /\ clean' = [clean EXCEPT ![s] = "no"]
    /\ cleared' = cleared \ {s}
    /\ last' = [op |-> "construct", sm |-> s, ret |-> TRUE]
    /\ ctor_at' = [ctor_at EXCEPT ![s] = "done"]
    /\ UNCHANGED <<instr_mem, statics, counts, pc, call, sum_current, pops, produced,
                   pass>>

ConcBegin == \E s \in Chan : CtorBegin(s)
ConcTest == \E s \in Chan : CtorTest(s)
ConcLoad == \E s \in Chan : CtorLoad(s)
ConcSet == \E s \in Chan : CtorSet(s)
ConcConfig == \E s \in Chan : CtorConfig(s)

NextConc ==
    \/ ConcBegin
    \/ ConcTest
    \/ ConcLoad
    \/ ConcSet
    \/ ConcConfig
    \/ Produce

SpecConc == InitAPI /\ [][NextConc]_vars

\* ------------------------------------------------------ client, SpecCtor
CtorConstructAny == \E s \in SM : ApiConstruct(s)

NextCtor ==
    \/ CtorConstructAny
    \/ Produce

SpecCtor == InitAPI /\ [][NextCtor]_vars

\* ------------------------------------------------------------ claims
\* number of occurrences of x in the sequence q
Count(q, x) == Cardinality({i \in DOMAIN q : q[i] = x})

\* a read_pulses has returned and nothing was called since
ReadDone == last.op = "read"

\* C1 as stated: when read_pulses returns true, the current count is the plain
\* sum of the values it popped and the report count has grown by their number.
C1_Original ==
    (ReadDone /\ last.ret) =>
        /\ current_pulse_count[last.sm] = SeqSum(popped)
        /\ report_count[last.sm] = entry.rep + Len(popped)

\* C1 amended: when read_pulses returns true, the current count is the sum of
\* the values popped by that call, and the report count has grown by their
\* number, both in 32-bit unsigned arithmetic (modulo 2^32).
C1_Theorem ==
    (ReadDone /\ last.ret) =>
        /\ current_pulse_count[last.sm] = SeqSum(popped) % UINT32_MOD
        /\ report_count[last.sm] = (entry.rep + Len(popped)) % UINT32_MOD

\* a successful read_pulses that also popped an entry pushed while its loop
\* ran, and whose sum wrapped around
C1_Witness ==
    /\ ReadDone /\ last.ret
    /\ Len(popped) > entry.level
    /\ SeqSum(popped) >= UINT32_MOD

\* C2: the cumulative count of an instance is the sum modulo 2^32 of the current
\* counts of its successful read_pulses calls; failed calls and clear_queues
\* add nothing.
C2_Theorem ==
    \A s \in Chan : cumulative_pulse_count[s] = sum_current[s]

\* a successful read_pulses on an instance whose cumulative count was not zero
\* and has wrapped around
C2_Witness ==
    /\ ReadDone /\ last.ret
    /\ entry.cum > 0
    /\ current_pulse_count[last.sm] > 0
    /\ cumulative_pulse_count[last.sm] < entry.cum

C4_Theorem ==
    /\ Cardinality(instr_mem) <= 1
    /\ (\E s \in SM : sm_enabled[s]) <=> (instr_mem # {})
    /\ \A s \in SM : sm_enabled[s] => (instr_mem = {sm_offset[s]} /\ offset = sm_offset[s])

\* every state machine has an instance, and the program is not at offset 0
C4_Witness ==
    /\ \A s \in SM : sm_enabled[s]
    /\ Cardinality(SM) >= 2
    /\ offset # 0

\* a step of read_pulses or clear_queues of instance a
StepOf(a) ==
    \/ ApiClear(a)
    \/ ApiRead(a)
    \/ (rp_sm = a /\ (ReadPop \/ ReadCheck))

\* C5: a step of read_pulses or clear_queues of one instance leaves the counts
\* and the FIFO of the other instance unchanged.
C5_Theorem ==
    [][\A a, b \in Chan :
          (a # b /\ StepOf(a)) =>
              /\ current_pulse_count'[b] = current_pulse_count[b]
              /\ cumulative_pulse_count'[b] = cumulative_pulse_count[b]
              /\ report_count'[b] = report_count[b]
              /\ rx_fifo'[b] = rx_fifo[b]]_vars

\* an operation of one instance has completed while the other instance has
\* counts that are not zero and a FIFO that is not empty
C5_Witness ==
    /\ last.op \in {"read", "clear"}
    /\ \E b \in Chan \ {last.sm} :
          /\ rx_fifo[b] # <<>>
          /\ current_pulse_count[b] # 0
          /\ cumulative_pulse_count[b] # 0
          /\ report_count[b] # 0

C7_Theorem ==
    /\ \A s \in Chan : Count(polled, s) <= 1
    /\ pc = "sleep" => \A s \in Chan : Count(polled, s) = 1
    /\ pc \in {"poll_up", "report_up"} => Count(polled, SM_DN) = 0

\* a pass has ended in which the up FIFO was empty and the down one was not
C7_Witness ==
    /\ pc = "sleep"
    /\ ok = {SM_DN}
    /\ polled = <<SM_UP, SM_DN>>

\* the report main() prints for instance s
ReportOf(s) ==
    [sm |-> s, report |-> report_count[s], current |-> current_pulse_count[s],
     total |-> cumulative_pulse_count[s]]

\* C8: in a pass main() prints a report for an instance exactly when its
\* read_pulses of that pass returned true, and the report carries the counts
\* of that instance.
C8_Theorem ==
    /\ \A i \in DOMAIN reports :
          /\ reports[i].sm \in ok
          /\ reports[i] = ReportOf(reports[i].sm)
          /\ \A j \in DOMAIN reports : reports[j].sm = reports[i].sm => j = i
    /\ pc = "sleep" => \A s \in ok : \E i \in DOMAIN reports : reports[i].sm = s

\* a pass has ended with the up instance reported and the down instance, whose
\* FIFO was empty, not reported
C8_Witness ==
    /\ pc = "sleep"
    /\ ok = {SM_UP}
    /\ polled = <<SM_UP, SM_DN>>
    /\ Len(reports) = 1
    /\ reports[1].sm = SM_UP

\* C9: in every pass read_pulses is called on the up instance before the down
\* instance, and the reports of the pass are printed in that order.
C9_Theorem ==
    /\ polled \in {<<>>, <<SM_UP>>, <<SM_UP, SM_DN>>}
    /\ pc = "sleep" => polled = <<SM_UP, SM_DN>>
    /\ \A i, j \in DOMAIN reports :
          i < j => (reports[i].sm = SM_UP /\ reports[j].sm = SM_DN)

\* a pass has ended in which both instances were reported
C9_Witness ==
    /\ pc = "sleep"
    /\ Len(reports) = 2

C11_Theorem ==
    [][\A s \in Chan :
          ApiClear(s) =>
              /\ rx_fifo'[s] = <<>>
              /\ cumulative_pulse_count'[s] = cumulative_pulse_count[s]
              /\ report_count'[s] = report_count[s]
              /\ (last = [op |-> "clear", sm |-> s, ret |-> TRUE] /\ clean[s] # "no")
                    => UNCHANGED <<hw, statics, counts>>]_vars

\* clear_queues has been called twice in a row, with nothing pushed in
\* between, on an instance whose counts are not zero
C11_Witness ==
    /\ last.op = "clear"
    /\ clean[last.sm] = "again"
    /\ cumulative_pulse_count[last.sm] # 0
    /\ report_count[last.sm] # 0

\* C12 as stated: no step ever makes the cumulative count of an instance
\* smaller.
C12_Original ==
    [][\A s \in Chan : cumulative_pulse_count'[s] >= cumulative_pulse_count[s]]_vars

\* C12 amended: the cumulative count only changes when read_pulses returns
\* true, to (old + current) modulo 2^32; it does not become smaller unless
\* old + current reaches 2^32, and then it wraps around to a smaller value.
C12_Theorem ==
    [][\A s \in Chan :
          LET old == cumulative_pulse_count[s]
              new == cumulative_pulse_count'[s]
              add == current_pulse_count'[s]
          IN  \/ new = old
              \/ /\ last'.op = "read" /\ last'.sm = s /\ last'.ret
                 /\ new = (old + add) % UINT32_MOD
                 /\ (old + add < UINT32_MOD) => new >= old
                 /\ (old + add >= UINT32_MOD) => new < old]_vars

\* a second successful read_pulses has made the cumulative count larger
C12_Witness ==
    /\ ReadDone /\ last.ret
    /\ entry.cum > 0
    /\ cumulative_pulse_count[last.sm] > entry.cum

\* C13: between the operations of an instance its report count is the number,
\* modulo 2^32, of entries popped from its FIFO since construction; entries
\* discarded by clear_queues are not counted.
C13_Theorem ==
    rp_at = "idle" => \A s \in Chan : report_count[s] = pops[s]

\* clear_queues has discarded entries of an instance that has popped some
C13_Witness ==
    /\ rp_at = "idle"
    /\ last.op = "clear"
    /\ clean[last.sm] = "flushed"
    /\ report_count[last.sm] >= 2

\* C14: with the two constructors interleaved, the program is still loaded at
\* most once and both state machines are initialised with the same offset.
C14_Claim ==
    /\ Cardinality(instr_mem) <= 1
    /\ \A a, b \in Chan :
          (ctor_at[a] = "done" /\ ctor_at[b] = "done") => sm_offset[a] = sm_offset[b]

\* C15: a read_pulses that returns true has popped, in order, every entry that
\* was in the FIFO at its entry test or was pushed before its final level test,
\* and its current count is their sum; none of them is left in the FIFO.
C15_Theorem ==
    (ReadDone /\ last.ret) =>
        /\ popped = avail
        /\ current_pulse_count[last.sm] = SeqSum(avail) % UINT32_MOD

\* a read_pulses has returned true after two entries were pushed while its
\* loop ran
C15_Witness ==
    /\ ReadDone /\ last.ret
    /\ entry.level >= 1
    /\ Len(avail) >= entry.level + 2
    /\ Len(popped) >= 3

\* C16: when main() first calls read_pulses, and ever after, both instances
\* have been constructed (their state machines enabled) and clear_queues has
\* been called on both.
C16_Theorem ==
    (polled # <<>> \/ pass_done \/ rp_at # "idle" \/ last.op \in {"read", "reading"})
        => \A s \in Chan : sm_enabled[s] /\ s \in cleared

\* the first read_pulses of main() is running, on a FIFO that received an
\* entry after it was cleared
C16_Witness ==
    /\ ~pass_done
    /\ polled = <<SM_UP>>
    /\ rp_at = "pop"
    /\ cleared = Chan

\* C17: whenever read_pulses is about to execute pio_sm_get, the FIFO of its
\* state machine holds at least one entry.
C17_Theorem ==
    rp_at = "pop" => pio_sm_get_rx_fifo_level(rp_sm) >= 1

\* read_pulses is about to pop again, an entry that was pushed after the call
\* was entered
C17_Witness ==
    /\ rp_at = "pop"
    /\ Len(popped) >= entry.level
    /\ Len(popped) >= 1

\* C18: every read_pulses call eventually returns, also when the state
\* machine keeps pushing entries while the loop runs.
C18_Claim == (rp_at # "idle") ~> (rp_at = "idle")

\* C19: once the loop of main() runs, an entry in the FIFO of an instance is
\* eventually followed by a report of that instance.
C19_Claim ==
    \A s \in Chan :
        (pc \in {"poll_up", "report_up", "poll_dn", "report_dn", "sleep"}
            /\ rx_fifo[s] # <<>>)
          ~> (last.op = "report" /\ last.sm = s)

TypeOK ==
    /\ \A s \in SM : /\ current_pulse_count[s] \in 0 .. (UINT32_MOD - 1)
                     /\ cumulative_pulse_count[s] \in 0 .. (UINT32_MOD - 1)
                     /\ report_count[s] \in 0 .. (UINT32_MOD - 1)
                     /\ Len(rx_fifo[s]) <= MaxFifo
    /\ rp_at \in {"idle", "pop", "check"}
====
